---- MODULE Spec2Model ----
(***************************************************************************)
(* Model of the classroom renderer (src/src/main.cpp): the life cycle of   *)
(* ClassroomSimulator (Run, InitSystem, InitShaders, InitShadowFramebuffer,*)
(* LoadScene, MainLoop, Cleanup), the OpenGL state its calls change, and   *)
(* Mesh::Dispose.                                                          *)
(*                                                                         *)
(* Handles are the names the GL hands out (1, 2, 3, ... per name space, 0  *)
(* is "no object").  Lengths are in thousandths of a unit, angles in       *)
(* degrees, alpha in hundredths.  A model matrix is the sequence of the    *)
(* glm operations that were multiplied into it, in order.  The light       *)
(* positions are binary32 values, computed as LoadScene computes them.     *)
(*                                                                         *)
(* The look angles and the cursor of src/common/controls.cpp are part of   *)
(* the state, the angles in milliradians, the cursor in pixels.            *)
(*                                                                         *)
(* Five parts of the code are also modelled on their own: Mesh::Dispose    *)
(* (DisposeSpec), the bias matrix of the shadow pass (BiasSpec),           *)
(* scroll_callback of src/common/controls.cpp (ScrollSpec), DrawMesh and   *)
(* DrawMeshShadow (DrawSpec), and AddObject (AddSpec).                     *)
(***************************************************************************)
EXTENDS Integers, Sequences, FiniteSets, TLC

\* ------------------------------------------------------------------ bounds

\* the frame counter saturates here: frames 1 .. MaxFrames-1 are told apart,
\* every later frame counts as MaxFrames
MaxFrames == 3

\* Mesh::Dispose on its own is called at most this many times on a mesh
MaxDisposeCalls == 2

\* Mesh::Dispose on its own: the mesh was loaded after at most this many
\* buffer names, and this many texture names, were in use
MaxNamesInUse == 2

\* the bias matrix on its own: a clip-space coordinate is one of the
\* 2 * ClipSteps + 1 evenly spaced values from -1 to 1
ClipSteps == 4

\* scroll_callback on its own: at most this many scroll events are delivered
MaxScrollEvents == 3

\* DrawMesh and DrawMeshShadow on their own: the batch drawn has at most this
\* many instances
MaxInstances == 3

\* scroll_callback on its own: an event's yoffset is a multiple of half a
\* notch, at most this many halves either way
MaxScrollOffset == 16

\* the mouse is moved at most this many times while the loop runs
MaxMouseMoves == 1

\* AddObject on its own is called at most this many times
MaxAddCalls == 2

\* ------------------------------------------------------------- constants

NUM_LIGHTS == 9

WINDOW_WIDTH == 1536

WINDOW_HEIGHT == 1152

\* controls.cpp, float mouseSpeed = 0.005f: milliradians per pixel
mouseSpeed == 5

\* the Mesh members of ClassroomSimulator, in declaration order
MeshNames ==
    { "bench", "door", "switchObj", "exhaust", "clock", "pipe", "projector",
      "screen", "floorMesh", "fan", "greenboard", "podium", "table",
      "lightPanel", "grid", "windowMesh", "wallFan", "glass", "wall", "ceiling" }

\* struct Mesh after default member initialisation
NewMesh ==
    [ vertexBuffer |-> 0, uvBuffer |-> 0, normalBuffer |-> 0, elementBuffer |-> 0,
      tangentBuffer |-> 0, bitangentBuffer |-> 0,
      textureID |-> 0, normalTextureID |-> 0, specularTextureID |-> 0,
      indexCount |-> 0, hasNormalMap |-> FALSE, modelMatrices |-> << >> ]

\* ------------------------------------------------------------------ state

VARIABLES
    pc,                 \* position of the main thread
    exitStatus,         \* value returned by main, -1 while the process runs
    glfwInited,         \* glfwInit has succeeded
    window,             \* the global GLFWwindow*, 0 is nullptr
    windowShouldClose,  \* the window's close flag
    gen,                \* how many GL names were generated, per name space
    linked,             \* the program handles that compiled and linked
    gl,                 \* the state of the OpenGL context
    VertexArrayID, FramebufferName, depthTextureArray,
    programID, depthProgramID,
    meshes,             \* the Mesh members, by name
    opaqueMeshes, normalMapMeshes, transparentMeshes,
    classroomLightPositions_worldspace,
    shadingMode, gKeyPressed, allDepthBiasMVPs, lightIdx,  \* MainLoop locals
    drawLog,            \* clears and draw calls of the pass in progress
    callLog,            \* glDelete* and glfwTerminate calls so far, in order
    disposed,           \* the meshes Dispose was called on, in order
    failures,           \* the initialisation and loading steps that failed
    entered,            \* the stages of Run that were entered
    frameNo,            \* the frame in progress (saturating at MaxFrames)
    layersWritten,      \* shadow layers cleared as the render target this frame
    gSample, gPrevSample, \* the G key as sampled in this and the previous frame
    escSample,          \* the ESC key as sampled by the last loop test
    glAfterTerminate,   \* a GL call was issued after glfwTerminate
    dMesh, dCalls, dLog, \* Mesh::Dispose on its own: the mesh, calls made, deletes
    clipPoint, texCoord, \* the bias matrix on its own: a point and its image
    initialFoV,         \* controls.cpp: the field of view, in degrees
    scrollEvents,       \* scroll events delivered so far
    fovBefore, yoffset, \* the last event: the field of view it found, its
                        \* yoffset in halves of a notch
    cursor,             \* the cursor position GLFW reports, << x, y >> in pixels
    horizontalAngle, verticalAngle, \* controls.cpp: the look angles, in
                        \* milliradians
    mouseMoves,         \* the times the user moved the mouse so far
    addCalls            \* AddObject on its own: the calls made, in order

vars ==
    << pc, exitStatus, glfwInited, window, windowShouldClose, gen, linked, gl,
       VertexArrayID, FramebufferName, depthTextureArray, programID,
       depthProgramID, meshes, opaqueMeshes, normalMapMeshes, transparentMeshes,
       classroomLightPositions_worldspace, shadingMode, gKeyPressed,
       allDepthBiasMVPs, lightIdx, drawLog, callLog, disposed, failures,
       entered, frameNo, layersWritten, gSample, gPrevSample, escSample,
       glAfterTerminate, dMesh, dCalls, dLog, clipPoint, texCoord, initialFoV,
       scrollEvents, fovBefore, yoffset, cursor, horizontalAngle,
       verticalAngle, mouseMoves, addCalls >>

simVars ==
    << VertexArrayID, FramebufferName, depthTextureArray, programID,
       depthProgramID >>

sceneVars ==
    << meshes, opaqueMeshes, normalMapMeshes, transparentMeshes,
       classroomLightPositions_worldspace >>

loopVars == << shadingMode, gKeyPressed, allDepthBiasMVPs, lightIdx >>

inputVars == << gSample, gPrevSample, escSample >>

disposeVars == << dMesh, dCalls, dLog >>

biasVars == << clipPoint, texCoord >>

scrollVars == << initialFoV, scrollEvents, fovBefore, yoffset >>

cameraVars == << cursor, horizontalAngle, verticalAngle, mouseMoves >>

addVars == << addCalls >>

harnessVars == << disposeVars, biasVars, scrollVars, cameraVars, addVars >>

\* an array element or local that has not been assigned yet
Indeterminate == "indeterminate"

\* the state of a fresh OpenGL 3.3 core context
FreshContext ==
    [ framebuffer |-> 0,            \* GL_FRAMEBUFFER binding, 0 is the screen
      fboLayer |-> -1,              \* depth attachment of the shadow FBO
      program |-> 0,                \* glUseProgram
      blend |-> FALSE, depthMask |-> TRUE,
      depthTest |-> FALSE, cullFace |-> FALSE,
      vertexArray |-> 0,
      activeTexture |-> 0,
      tex2D |-> [u \in 0..3 |-> 0],       \* GL_TEXTURE_2D binding per unit
      texArray |-> [u \in 0..3 |-> 0],    \* GL_TEXTURE_2D_ARRAY binding per unit
      attrib |-> [a \in 0..4 |-> FALSE],  \* enabled vertex attribute arrays
      \* uniforms of the lighting program
      uShadingModel |-> 0, bIsUnlit |-> 0, bIsGlass |-> 0, fragmentAlpha |-> 0,
      bUseNormalMap |-> 0, bUseSpecularMap |-> 0 ]

\* the shadow framebuffer is the render target and its depth attachment is
\* a layer of the depth array: the layer, or -1 when rendering goes elsewhere
TargetLayer(g) ==
    IF FramebufferName # 0 /\ g.framebuffer = FramebufferName
    THEN g.fboLayer ELSE -1

Terminated == \E i \in DOMAIN callLog : callLog[i].fn = "glfwTerminate"

\* ghost: an action that issues GL calls notes whether the library was
\* already torn down
NoteGL == glAfterTerminate' = (glAfterTerminate \/ Terminated)

\* a ClassroomSimulator after construction, before Run
Constructed ==
    /\ exitStatus = -1
    /\ glfwInited = FALSE
    /\ window = 0
    /\ windowShouldClose = FALSE
    /\ gen = [ buffer |-> 0, texture |-> 0, framebuffer |-> 0,
               vertexArray |-> 0, program |-> 0 ]
    /\ linked = {}
    /\ gl = FreshContext
    /\ VertexArrayID = 0
    /\ FramebufferName = 0
    /\ depthTextureArray = 0
    /\ programID = 0
    /\ depthProgramID = 0
    /\ meshes = [m \in MeshNames |-> NewMesh]
    /\ opaqueMeshes = << >>
    /\ normalMapMeshes = << >>
    /\ transparentMeshes = << >>
    /\ classroomLightPositions_worldspace = [i \in 0..(NUM_LIGHTS - 1) |-> Indeterminate]
    /\ shadingMode = 0
    /\ gKeyPressed = FALSE
    /\ allDepthBiasMVPs = << >>
    /\ lightIdx = 0
    /\ drawLog = << >>
    /\ callLog = << >>
    /\ disposed = << >>
    /\ failures = {}
    /\ entered = {}
    /\ frameNo = 0
    /\ layersWritten = {}
    /\ gSample = FALSE
    /\ gPrevSample = FALSE
    /\ escSample = FALSE
    /\ glAfterTerminate = FALSE

\* float initialFoV = 45.0f; no scroll event was delivered
ScrollIdle ==
    /\ initialFoV = 45
    /\ scrollEvents = 0
    /\ fovBefore = 45
    /\ yoffset = 0

DisposeIdle ==
    /\ dMesh = NewMesh
    /\ dCalls = 0
    /\ dLog = << >>

BiasIdle ==
    /\ clipPoint = << 0, 0, 0 >>
    /\ texCoord = << >>

\* float horizontalAngle = 0.59; float verticalAngle = -0.48; there is no
\* window yet and the mouse was not moved
CameraIdle ==
    /\ cursor = << 0, 0 >>
    /\ horizontalAngle = 590
    /\ verticalAngle = -480
    /\ mouseMoves = 0

AddIdle == addCalls = << >>

HarnessIdle == DisposeIdle /\ BiasIdle /\ ScrollIdle /\ CameraIdle /\ AddIdle

Init == pc = "InitSystem" /\ Constructed /\ HarnessIdle

\* --------------------------------------------------------------- start-up

\* ClassroomSimulator::InitSystem, called first by Run
InitSystem ==
    /\ pc = "InitSystem"
    /\ \E glfwOk \in BOOLEAN, windowOk \in BOOLEAN, glewOk \in BOOLEAN,
          closeEvent \in BOOLEAN :
         IF ~glfwOk THEN
            /\ failures' = failures \cup {"glfwInit"}
            /\ pc' = "Delete"
            /\ UNCHANGED << glfwInited, window, windowShouldClose, gen, gl,
                            VertexArrayID, callLog, glAfterTerminate, cursor >>
         ELSE IF ~windowOk THEN
            /\ glfwInited' = TRUE
            /\ failures' = failures \cup {"window"}
            /\ callLog' = Append(callLog, [ api |-> "glfw", fn |-> "glfwTerminate",
                                            kind |-> "library", h |-> 0 ])
            /\ pc' = "Delete"
            /\ UNCHANGED << window, windowShouldClose, gen, gl, VertexArrayID,
                            glAfterTerminate, cursor >>
         ELSE IF ~glewOk THEN
            /\ glfwInited' = TRUE
            /\ window' = 1
            /\ failures' = failures \cup {"glew"}
            /\ pc' = "Delete"
            /\ UNCHANGED << windowShouldClose, gen, gl, VertexArrayID, callLog,
                            glAfterTerminate, cursor >>
         ELSE
            /\ glfwInited' = TRUE
            /\ window' = 1
            /\ windowShouldClose' = closeEvent          \* glfwPollEvents
            \* glfwSetCursorPos(window, WINDOW_WIDTH / 2, WINDOW_HEIGHT / 2)
            /\ cursor' = << WINDOW_WIDTH \div 2, WINDOW_HEIGHT \div 2 >>
            /\ gen' = [gen EXCEPT !.vertexArray = @ + 1]
            /\ VertexArrayID' = gen.vertexArray + 1
            /\ gl' = [gl EXCEPT !.depthTest = TRUE, !.cullFace = TRUE,
                                !.vertexArray = gen.vertexArray + 1]
            /\ NoteGL
            /\ pc' = "InitShaders"
            /\ UNCHANGED << failures, callLog >>
    /\ UNCHANGED << exitStatus, linked, FramebufferName, depthTextureArray,
                    programID, depthProgramID, sceneVars, loopVars, drawLog,
                    disposed, entered, frameNo, layersWritten, inputVars,
                    disposeVars, biasVars, scrollVars, horizontalAngle,
                    verticalAngle, mouseMoves, addVars >>

\* LoadShaders (common/shader.cpp): the program handle it returns.  A
\* failure to read, compile or link shows only in the handle: 0, or the name
\* of a program that did not link.
LoadShaders(g, outcome) ==
    IF outcome = "failZero"
    THEN [ handle |-> 0, gen |-> g, ok |-> FALSE ]
    ELSE [ handle |-> g.program + 1,
           gen |-> [g EXCEPT !.program = @ + 1],
           ok |-> (outcome = "ok") ]

ShaderOutcomes == { "ok", "failZero", "failHandle" }

\* ClassroomSimulator::InitShaders: no result is tested, Run goes on
InitShaders ==
    /\ pc = "InitShaders"
    /\ \E depthOutcome \in ShaderOutcomes, mainOutcome \in ShaderOutcomes :
         LET d == LoadShaders(gen, depthOutcome)
             p == LoadShaders(d.gen, mainOutcome)
         IN  /\ depthProgramID' = d.handle
             /\ programID' = p.handle
             /\ gen' = p.gen
             /\ linked' = (IF d.ok THEN {d.handle} ELSE {})
                             \cup (IF p.ok THEN {p.handle} ELSE {})
             /\ failures' = failures
                             \cup (IF d.ok /\ p.ok THEN {} ELSE {"shader"})
    /\ entered' = entered \cup {"InitShaders"}
    /\ NoteGL
    /\ pc' = "InitShadowFramebuffer"
    /\ UNCHANGED << exitStatus, glfwInited, window, windowShouldClose, gl,
                    VertexArrayID, FramebufferName, depthTextureArray,
                    sceneVars, loopVars, drawLog, callLog, disposed, frameNo,
                    layersWritten, inputVars, harnessVars >>

\* glFramebufferTextureLayer(GL_FRAMEBUFFER, GL_DEPTH_ATTACHMENT, tex, 0, layer)
\* sets the attachment of the framebuffer object that is bound; with the
\* default framebuffer bound it is an error and changes nothing
FramebufferTextureLayer(g, fbo, layer) ==
    IF fbo # 0 /\ g.framebuffer = fbo THEN [g EXCEPT !.fboLayer = layer] ELSE g

\* ClassroomSimulator::InitShadowFramebuffer
InitShadowFramebuffer ==
    /\ pc = "InitShadowFramebuffer"
    /\ LET fbo == gen.framebuffer + 1
           tex == gen.texture + 1
           bound == [gl EXCEPT !.framebuffer = fbo,
                               !.texArray[gl.activeTexture] = tex]
       IN  /\ FramebufferName' = fbo
           /\ depthTextureArray' = tex
           /\ gen' = [gen EXCEPT !.framebuffer = fbo, !.texture = tex]
           /\ gl' = FramebufferTextureLayer(bound, fbo, 0)
    /\ \E complete \in BOOLEAN :
         IF complete
         THEN /\ pc' = "LoadScene"
              /\ UNCHANGED failures
         ELSE /\ pc' = "Delete"
              /\ failures' = failures \cup {"framebuffer"}
    /\ entered' = entered \cup {"InitShadowFramebuffer"}
    /\ NoteGL
    /\ UNCHANGED << exitStatus, glfwInited, window, windowShouldClose, linked,
                    VertexArrayID, programID, depthProgramID, sceneVars,
                    loopVars, drawLog, callLog, disposed, frameNo,
                    layersWritten, inputVars, harnessVars >>

\* ------------------------------------------------------------ scene load

\* the order in which LoadScene loads the meshes
LoadOrder ==
    << "bench", "door", "switchObj", "exhaust", "clock", "pipe", "projector",
       "screen", "floorMesh", "fan", "greenboard", "podium", "table",
       "lightPanel", "grid", "windowMesh", "wallFan", "glass", "wall", "ceiling" >>

\* the meshes LoadScene loads with LoadNormalMapMesh
LoadedWithNormalMap == { "wall", "ceiling" }

\* what can go wrong in one run of LoadScene: nothing, or a file of a mesh
\* is missing or malformed, one of each kind of file
AssetFailures ==
    { << "none", "none" >>,
      << "bench", "obj" >>, << "glass", "diffuse" >>,
      << "wall", "normal" >>, << "ceiling", "specular" >> }

\* loadDDS / loadBMP_custom (common/texture.cpp): a new texture name, 0 when
\* the file could not be loaded
LoadTexture(g, ok) ==
    IF ok THEN [ handle |-> g.texture + 1, gen |-> [g EXCEPT !.texture = @ + 1] ]
          ELSE [ handle |-> 0, gen |-> g ]

\* indices.size() after loadOBJ and indexVBO: nothing when the model file
\* could not be read, else at least one triangle
IndexCount(objOk) == IF objOk THEN 3 ELSE 0

\* ClassroomSimulator::LoadStandardMesh; loadOBJ's result is not tested, the
\* four buffers are generated whatever was read
LoadStandardMesh(g, objOk, ddsOk) ==
    LET t == LoadTexture(g, ddsOk)
        b == t.gen.buffer
    IN  [ mesh |-> [ NewMesh EXCEPT !.textureID = t.handle,
                                    !.indexCount = IndexCount(objOk),
                                    !.hasNormalMap = FALSE,
                                    !.vertexBuffer = b + 1,
                                    !.uvBuffer = b + 2,
                                    !.normalBuffer = b + 3,
                                    !.elementBuffer = b + 4 ],
          gen |-> [t.gen EXCEPT !.buffer = b + 4] ]

\* ClassroomSimulator::LoadNormalMapMesh
LoadNormalMapMesh(g, objOk, diffOk, normOk, specOk) ==
    LET t == LoadTexture(g, diffOk)
        n == LoadTexture(t.gen, normOk)
        s == LoadTexture(n.gen, specOk)
        b == s.gen.buffer
    IN  [ mesh |-> [ NewMesh EXCEPT !.textureID = t.handle,
                                    !.normalTextureID = n.handle,
                                    !.specularTextureID = s.handle,
                                    !.hasNormalMap = TRUE,
                                    !.indexCount = IndexCount(objOk),
                                    !.vertexBuffer = b + 1,
                                    !.uvBuffer = b + 2,
                                    !.normalBuffer = b + 3,
                                    !.tangentBuffer = b + 4,
                                    !.bitangentBuffer = b + 5,
                                    !.elementBuffer = b + 6 ],
          gen |-> [s.gen EXCEPT !.buffer = b + 6] ]

\* steps 1-3 of LoadScene: every member is assigned the mesh its loader returns
RECURSIVE LoadMeshes(_, _, _, _)
LoadMeshes(ms, g, names, fail) ==
    IF names = << >> THEN [ meshes |-> ms, gen |-> g ]
    ELSE LET name == Head(names)
             Ok(f) == fail # << name, f >>
             r == IF name \in LoadedWithNormalMap
                  THEN LoadNormalMapMesh(g, Ok("obj"), Ok("diffuse"),
                                         Ok("normal"), Ok("specular"))
                  ELSE LoadStandardMesh(g, Ok("obj"), Ok("diffuse"))
         IN  LoadMeshes([ms EXCEPT ![name] = r.mesh], r.gen, Tail(names), fail)

\* glm::vec3
Vec3(x, y, z) == << x, y, z >>

AxisX == Vec3(1, 0, 0)

AxisY == Vec3(0, 1, 0)

\* glm::vec3(1.0f), the default scale
UnitScale == Vec3(1000, 1000, 1000)

\* glm::mat4(1.0f)
Identity == << >>

\* glm::translate, glm::rotate, glm::scale: m multiplied by the operation
Translate(m, v) == Append(m, [ op |-> "translate", deg |-> 0, v |-> v ])

Rotate(m, deg, axis) == Append(m, [ op |-> "rotate", deg |-> deg, v |-> axis ])

Scale(m, v) == Append(m, [ op |-> "scale", deg |-> 0, v |-> v ])

\* Mesh::addInstance
addInstance(mesh, matrix) ==
    [mesh EXCEPT !.modelMatrices = Append(@, matrix)]

\* AddObject without the test of rotDeg: glm::rotate is always applied
AddObject_AlwaysRotates(mesh, pos, rotDeg, rotAxis, scale) ==
    LET t == Translate(Identity, pos)
        r == Rotate(t, rotDeg, rotAxis)
        model == IF scale # UnitScale THEN Scale(r, scale) ELSE r
    IN  addInstance(mesh, model)

\* ClassroomSimulator::AddObject, on the Mesh it is given
AddObject(mesh, pos, rotDeg, rotAxis, scale) ==
    LET t == Translate(Identity, pos)
        r == IF rotDeg # 0 THEN Rotate(t, rotDeg, rotAxis) ELSE t
        model == IF scale # UnitScale THEN Scale(r, scale) ELSE r
    IN  addInstance(mesh, model)

\* the arguments of one AddObject call
Call(mesh, pos, rotDeg, rotAxis, scale) ==
    [ mesh |-> mesh, pos |-> pos, rotDeg |-> rotDeg, rotAxis |-> rotAxis,
      scale |-> scale ]

\* consecutive AddObject calls, first to last: every mesh gets, after the
\* instances it has, the instance each of its calls appends, in call order
AddObjects(ms, calls) ==
    [ name \in DOMAIN ms |->
        LET mine == SelectSeq(calls, LAMBDA c : c.mesh = name)
            Appended(c) ==
                LET after == AddObject(ms[name], c.pos, c.rotDeg, c.rotAxis,
                                       c.scale).modelMatrices
                IN  after[Len(after)]
        IN  [ ms[name] EXCEPT
                !.modelMatrices = @ \o [ k \in DOMAIN mine |-> Appended(mine[k]) ] ] ]

\* the (i, j) of a nested loop, for (i < n) for (j < m), in the order visited
Cells(n, m) == [ k \in 1..(n * m) |-> [ i |-> (k - 1) \div m, j |-> (k - 1) % m ] ]

\* the benches without the aisle test: every cell of the 5x5 grid gets a bench
BenchCalls_NoAisle ==
    LET kept == Cells(5, 5)
    IN  [ k \in DOMAIN kept |->
            Call("bench", Vec3(-16000 + kept[k].i * 9500, 500,
                               -40000 + kept[k].j * 20000), 90, AxisY, UnitScale) ]

\* LoadScene, benches: the 5x5 grid without the aisle
BenchCalls ==
    LET kept == SelectSeq(Cells(5, 5),
                          LAMBDA c : ~(c.i = 0 /\ (c.j = 3 \/ c.j = 4)))
    IN  [ k \in DOMAIN kept |->
            Call("bench", Vec3(-16000 + kept[k].i * 9500, 500,
                               -40000 + kept[k].j * 20000), 90, AxisY, UnitScale) ]

\* LoadScene, ceiling fans: the 2x3 grid from fanStart
FanCalls ==
    LET fanStart == Vec3(-32200 + 19320, 32975, -48300 + 22540)
        cells == Cells(2, 3)
    IN  [ k \in DOMAIN cells |->
            Call("fan", Vec3(fanStart[1] + cells[k].i * 25760, fanStart[2],
                             fanStart[3] + cells[k].j * 25760), 0, AxisY, UnitScale) ]

\* LoadScene, static geometry
StaticCalls ==
    << Call("floorMesh", Vec3(0, 0, 0), 0, AxisY, UnitScale),
       Call("ceiling", Vec3(0, 38100, 0), 0, AxisY, UnitScale),
       Call("wall", Vec3(-32700, 19060, 0), 0, AxisY, UnitScale),
       Call("door", Vec3(-31700, 12500, 48800), 0, AxisY, UnitScale) >>

\* LoadScene, the ceiling grid: built by hand and added with addInstance
GridMatrix ==
    Rotate(Rotate(Translate(Identity, Vec3(0, 38800, 0)), 90, AxisY), 180, AxisX)

\* LoadScene, details: three calls in each of two iterations
DetailCalls ==
    LET One(i) ==
          << Call("greenboard", Vec3(-32200, 18600, i * 28800 - 27700 + 3600),
                  0, AxisY, Vec3(1000, 1000, 800)),
             Call("switchObj", Vec3(-10200 + i * 28200, 14600, 48300),
                  180, AxisY, Vec3(700, 700, 700)),
             Call("exhaust", Vec3(14230 - i * 21460, 34100, 48800),
                  0, AxisY, Vec3(857, 857, 857)) >>
    IN  One(0) \o One(1)

\* LoadScene, the single placements after the details
SingleCalls ==
    << Call("podium", Vec3(-20000, 500, 28000), 290, AxisY, UnitScale),
       Call("table", Vec3(-9000, 500, 13200), 90, AxisY, UnitScale),
       Call("projector", Vec3(6440, 29750, -3220), 180, AxisY, UnitScale),
       Call("screen", Vec3(-31500, 30000, -9660), 0, AxisY, Vec3(1000, 1200, 1500)),
       Call("clock", Vec3(7600, 28000, -48000), 90, AxisX, UnitScale),
       Call("pipe", Vec3(-32200, 5000, -9000), 90, AxisY, UnitScale),
       Call("wallFan", Vec3(-14000, 25000, 48300), 180, AxisY, Vec3(500, 500, 500)) >>

\* LoadScene, windows and glass: a window and its pane in every iteration
WindowCalls ==
    LET Side(i) ==
          LET pos == Vec3(32700, 34100, -42260 + 12075 * i)
          IN  << Call("windowMesh", pos, 90, AxisY, UnitScale),
                 Call("glass", pos, 90, AxisY, Vec3(1000, 1000, 250)) >>
        Back(i) ==
          LET pos == Vec3(26830 - 10730 * i, 34100, 48800)
          IN  << Call("windowMesh", pos, 0, AxisY, Vec3(888, 1000, 1000)),
                 Call("glass", pos, 0, AxisY, Vec3(1000, 1000, 250)) >>
    IN  Side(0) \o Side(1) \o Side(2) \o Side(3) \o Side(4) \o Side(5)
            \o Side(6) \o Side(7)
            \o Back(0) \o Back(1) \o Back(2) \o Back(3) \o Back(4) \o Back(5)

\* ------------------------------------------------------------------ float
\* A float of the light grid is the integer f * 2^22: every binary32 value of
\* magnitude 2 .. 64 is such an integer, and so is every sum and product
\* formed of them below.

Abs(x) == IF x < 0 THEN -x ELSE x

\* the distance between neighbouring floats at magnitude a, in units of 2^-22
Ulp(a) ==
    IF a < 4 * 2^22 THEN 1
    ELSE IF a < 8 * 2^22 THEN 2
    ELSE IF a < 16 * 2^22 THEN 4
    ELSE IF a < 32 * 2^22 THEN 8
    ELSE 16

\* q or q + 1 multiples of a step, for a remainder r out of d: to nearest,
\* ties to even
RoundNearestEven(q, r, d) ==
    IF 2 * r < d THEN q
    ELSE IF 2 * r > d THEN q + 1
    ELSE IF q % 2 = 0 THEN q ELSE q + 1

\* the result of a float operation whose exact value is x
RoundToFloat(x) ==
    LET a == Abs(x)
        u == Ulp(a)
    IN  (IF x < 0 THEN -1 ELSE 1) * u * RoundNearestEven(a \div u, a % u, u)

\* a literal such as 25.76f, given in thousandths: the float nearest to it
FloatLiteral(milli) ==
    LET a == Abs(milli)
        whole == (a \div 1000) * 2^22
        u == Ulp(whole)
        \* the fraction is (a % 1000) * 2^22 / 1000 = part / 125
        part == (a % 1000) * 2^19
        q == (whole \div u) + (part \div (125 * u))
    IN  (IF milli < 0 THEN -1 ELSE 1)
          * u * RoundNearestEven(q, part % (125 * u), 125 * u)

\* int * float: the int is converted, the product rounded
FloatTimesInt(n, f) == RoundToFloat(n * f)

FloatPlus(f, g) == RoundToFloat(f + g)

\* a float to the nearest thousandth, the unit of the model matrices
Thousandths(f) ==
    LET a == Abs(f)
    IN  (IF f < 0 THEN -1 ELSE 1)
          * ((a \div 2^22) * 1000 + (250 * (a % 2^22) + 2^19) \div 2^20)

\* LoadScene, lights: the 3x3 grid, lightIdx counting the cells as visited
LightCells == Cells(3, 3)

\* float cx = -22.54f + i * 25.76f
LightX(c) == FloatPlus(FloatLiteral(-22540), FloatTimesInt(c.i, FloatLiteral(25760)))

\* float cz = -25.76f + j * 25.76f
LightZ(c) == FloatPlus(FloatLiteral(-25760), FloatTimesInt(c.j, FloatLiteral(25760)))

\* the lights with the two loops exchanged: lightIdx counts j-major
LightPositions_ColumnMajor ==
    [ idx \in 0..(NUM_LIGHTS - 1) |->
        Vec3(LightX(LightCells[3 * (idx % 3) + (idx \div 3) + 1]),
             FloatLiteral(38600),
             LightZ(LightCells[3 * (idx % 3) + (idx \div 3) + 1])) ]

\* classroomLightPositions_worldspace[lightIdx++] = glm::vec3(cx, 38.6f, cz)
LightPositions ==
    [ idx \in 0..(NUM_LIGHTS - 1) |->
        Vec3(LightX(LightCells[idx + 1]), FloatLiteral(38600),
             LightZ(LightCells[idx + 1])) ]

LightPanelCalls ==
    [ k \in DOMAIN LightCells |->
        Call("lightPanel",
             Vec3(Thousandths(LightX(LightCells[k])), 37675,
                  Thousandths(LightZ(LightCells[k]))),
             0, AxisY, Vec3(6440, 200, 6440)) ]

\* step 5 of LoadScene: the instances, in the order they are added
ComposeScene(ms) ==
    LET a == AddObjects(ms, BenchCalls \o FanCalls \o StaticCalls)
        b == [a EXCEPT !["grid"] = addInstance(@, GridMatrix)]
    IN  AddObjects(b, DetailCalls \o SingleCalls \o WindowCalls \o LightPanelCalls)

\* step 4 of LoadScene: the render buckets
OpaqueBucket ==
    << "bench", "door", "switchObj", "exhaust", "clock", "pipe", "projector",
       "screen", "floorMesh", "fan", "greenboard", "podium", "table",
       "windowMesh", "wallFan" >>

NormalMapBucket == << "wall", "ceiling", "grid" >>

TransparentBucket == << "glass" >>

\* ClassroomSimulator::LoadScene: no loader's result is tested
LoadScene ==
    /\ pc = "LoadScene"
    /\ \E fail \in AssetFailures :
         LET loaded == LoadMeshes(meshes, gen, LoadOrder, fail)
         IN  /\ meshes' = ComposeScene(loaded.meshes)
             /\ gen' = loaded.gen
             \* the loaders leave the last texture they created bound
             /\ gl' = IF loaded.gen.texture > gen.texture
                      THEN [gl EXCEPT !.tex2D[gl.activeTexture] = loaded.gen.texture]
                      ELSE gl
             /\ failures' = failures
                             \cup (IF fail[1] = "none" THEN {} ELSE {"asset"})
    /\ opaqueMeshes' = OpaqueBucket
    /\ normalMapMeshes' = NormalMapBucket
    /\ transparentMeshes' = TransparentBucket
    /\ classroomLightPositions_worldspace' = LightPositions
    /\ entered' = entered \cup {"LoadScene"}
    /\ NoteGL
    /\ pc' = "MainLoop"
    /\ UNCHANGED << exitStatus, glfwInited, window, windowShouldClose, linked,
                    simVars, loopVars, drawLog, callLog, disposed, frameNo,
                    layersWritten, inputVars, harnessVars >>

\* ------------------------------------------------------------ render loop

\* a call that reaches the GL: what it is, the loop that issued it, and the
\* context state it found
Entry(op, stage, mesh, inst, g) ==
    [ op |-> op, stage |-> stage, mesh |-> mesh, inst |-> inst,
      target |-> g.framebuffer, layer |-> TargetLayer(g), state |-> g ]

\* glUniform*: sets a uniform of the program in use; an error that changes
\* nothing unless that is the linked lighting program
SetUniform(g, name, value) ==
    IF g.program # 0 /\ g.program = programID /\ g.program \in linked
    THEN [g EXCEPT ![name] = value] ELSE g

\* ClassroomSimulator::DrawMeshShadow: one draw call per instance
DrawMeshShadow(g, stage, name) ==
    LET on == [g EXCEPT !.attrib[0] = TRUE]
        mm == meshes[name].modelMatrices
    IN  [ log |-> [ k \in 1..Len(mm) |-> Entry("draw", stage, name, k, on) ],
          gl |-> [on EXCEPT !.attrib[0] = FALSE] ]

\* DrawMesh with the instance loop replaced by a single draw call
DrawMesh_OncePerBatch(g, stage, name, alpha) ==
    LET mesh == meshes[name]
        g0 == [g EXCEPT !.activeTexture = 0, !.tex2D[0] = mesh.textureID]
        g1 == IF mesh.hasNormalMap
              THEN [ SetUniform(SetUniform(g0, "bUseNormalMap", 1),
                                "bUseSpecularMap", 1)
                       EXCEPT !.activeTexture = 3,
                              !.tex2D[2] = mesh.normalTextureID,
                              !.tex2D[3] = mesh.specularTextureID ]
              ELSE SetUniform(SetUniform(g0, "bUseNormalMap", 0),
                              "bUseSpecularMap", 0)
        g2 == [g1 EXCEPT !.attrib[0] = TRUE, !.attrib[1] = TRUE,
                         !.attrib[2] = TRUE,
                         !.attrib[3] = mesh.hasNormalMap,
                         !.attrib[4] = mesh.hasNormalMap]
        on == SetUniform(g2, "fragmentAlpha", alpha)
    IN  [ log |-> << Entry("draw", stage, name, 1, on) >>,
          gl |-> [on EXCEPT !.attrib[0] = FALSE, !.attrib[1] = FALSE,
                            !.attrib[2] = FALSE] ]

\* DrawMesh without the else branches: a batch without a normal map leaves
\* the flags and the attribute arrays 3 and 4 as the batch before left them
DrawMesh_KeepsTangents(g, stage, name, alpha) ==
    LET mesh == meshes[name]
        g0 == [g EXCEPT !.activeTexture = 0, !.tex2D[0] = mesh.textureID]
        g1 == IF mesh.hasNormalMap
              THEN [ SetUniform(SetUniform(g0, "bUseNormalMap", 1),
                                "bUseSpecularMap", 1)
                       EXCEPT !.activeTexture = 3,
                              !.tex2D[2] = mesh.normalTextureID,
                              !.tex2D[3] = mesh.specularTextureID ]
              ELSE g0
        g2 == [g1 EXCEPT !.attrib[0] = TRUE, !.attrib[1] = TRUE,
                         !.attrib[2] = TRUE,
                         !.attrib[3] = mesh.hasNormalMap \/ g1.attrib[3],
                         !.attrib[4] = mesh.hasNormalMap \/ g1.attrib[4]]
        on == SetUniform(g2, "fragmentAlpha", alpha)
    IN  [ log |-> [ k \in 1..Len(mesh.modelMatrices) |->
                      Entry("draw", stage, name, k, on) ],
          gl |-> [on EXCEPT !.attrib[0] = FALSE, !.attrib[1] = FALSE,
                            !.attrib[2] = FALSE] ]

\* DrawMesh without the glDisableVertexAttribArray calls of its last line
DrawMesh_LeavesEnabled(g, stage, name, alpha) ==
    LET mesh == meshes[name]
        g0 == [g EXCEPT !.activeTexture = 0, !.tex2D[0] = mesh.textureID]
        g1 == IF mesh.hasNormalMap
              THEN [ SetUniform(SetUniform(g0, "bUseNormalMap", 1),
                                "bUseSpecularMap", 1)
                       EXCEPT !.activeTexture = 3,
                              !.tex2D[2] = mesh.normalTextureID,
                              !.tex2D[3] = mesh.specularTextureID ]
              ELSE SetUniform(SetUniform(g0, "bUseNormalMap", 0),
                              "bUseSpecularMap", 0)
        g2 == [g1 EXCEPT !.attrib[0] = TRUE, !.attrib[1] = TRUE,
                         !.attrib[2] = TRUE,
                         !.attrib[3] = mesh.hasNormalMap,
                         !.attrib[4] = mesh.hasNormalMap]
        on == SetUniform(g2, "fragmentAlpha", alpha)
    IN  [ log |-> [ k \in 1..Len(mesh.modelMatrices) |->
                      Entry("draw", stage, name, k, on) ],
          gl |-> on ]

\* ClassroomSimulator::DrawMesh: one draw call per instance
DrawMesh(g, stage, name, alpha) ==
    LET mesh == meshes[name]
        g0 == [g EXCEPT !.activeTexture = 0, !.tex2D[0] = mesh.textureID]
        g1 == IF mesh.hasNormalMap
              THEN [ SetUniform(SetUniform(g0, "bUseNormalMap", 1),
                                "bUseSpecularMap", 1)
                       EXCEPT !.activeTexture = 3,
                              !.tex2D[2] = mesh.normalTextureID,
                              !.tex2D[3] = mesh.specularTextureID ]
              ELSE SetUniform(SetUniform(g0, "bUseNormalMap", 0),
                              "bUseSpecularMap", 0)
        g2 == [g1 EXCEPT !.attrib[0] = TRUE, !.attrib[1] = TRUE,
                         !.attrib[2] = TRUE,
                         !.attrib[3] = mesh.hasNormalMap,
                         !.attrib[4] = mesh.hasNormalMap]
        on == SetUniform(g2, "fragmentAlpha", alpha)
    IN  [ log |-> [ k \in 1..Len(mesh.modelMatrices) |->
                      Entry("draw", stage, name, k, on) ],
          gl |-> [on EXCEPT !.attrib[0] = FALSE, !.attrib[1] = FALSE,
                            !.attrib[2] = FALSE] ]

\* for (Mesh* mesh : bucket) DrawMeshShadow(*mesh, ...)
RECURSIVE DrawBucketShadow(_, _, _)
DrawBucketShadow(g, stage, names) ==
    IF names = << >> THEN [ log |-> << >>, gl |-> g ]
    ELSE LET d == DrawMeshShadow(g, stage, Head(names))
             r == DrawBucketShadow(d.gl, stage, Tail(names))
         IN  [ log |-> d.log \o r.log, gl |-> r.gl ]

\* for (Mesh* mesh : bucket) DrawMesh(*mesh, ..., alpha)
RECURSIVE DrawBucket(_, _, _, _)
DrawBucket(g, stage, names, alpha) ==
    IF names = << >> THEN [ log |-> << >>, gl |-> g ]
    ELSE LET d == DrawMesh(g, stage, Head(names), alpha)
             r == DrawBucket(d.gl, stage, Tail(names), alpha)
         IN  [ log |-> d.log \o r.log, gl |-> r.gl ]

\* MainLoop before the do-while: its locals
MainLoop_Begin ==
    /\ pc = "MainLoop"
    /\ shadingMode' = 0
    /\ gKeyPressed' = FALSE
    /\ allDepthBiasMVPs' = << >>
    /\ lightIdx' = 0
    /\ entered' = entered \cup {"MainLoop"}
    /\ pc' = "Input"
    /\ UNCHANGED << exitStatus, glfwInited, window, windowShouldClose, gen,
                    linked, gl, simVars, sceneVars, drawLog, callLog, disposed,
                    failures, frameNo, layersWritten, inputVars,
                    glAfterTerminate, harnessVars >>

\* the toggle without the edge test: the key is treated as a level
ToggleShading_Level(mode, pressedBefore, keyDown) ==
    IF keyDown
    THEN [ shadingMode |-> (IF mode = 0 THEN 1 ELSE 0), gKeyPressed |-> TRUE ]
    ELSE [ shadingMode |-> mode, gKeyPressed |-> FALSE ]

\* the input handling at the top of the loop body
ToggleShading(mode, pressedBefore, keyDown) ==
    IF keyDown
    THEN IF ~pressedBefore
         THEN [ shadingMode |-> (IF mode = 0 THEN 1 ELSE 0), gKeyPressed |-> TRUE ]
         ELSE [ shadingMode |-> mode, gKeyPressed |-> pressedBefore ]
    ELSE [ shadingMode |-> mode, gKeyPressed |-> FALSE ]

\* a frame starts: glfwGetKey(window, GLFW_KEY_G) is sampled
MainLoop_Input ==
    /\ pc = "Input"
    /\ \E keyDown \in BOOLEAN :
         LET t == ToggleShading(shadingMode, gKeyPressed, keyDown)
         IN  /\ shadingMode' = t.shadingMode
             /\ gKeyPressed' = t.gKeyPressed
             /\ gSample' = keyDown
             /\ gPrevSample' = gSample
    /\ frameNo' = IF frameNo < MaxFrames THEN frameNo + 1 ELSE frameNo
    /\ drawLog' = << >>
    /\ layersWritten' = {}
    /\ pc' = "ShadowSetup"
    /\ UNCHANGED << exitStatus, glfwInited, window, windowShouldClose, gen,
                    linked, gl, simVars, sceneVars, allDepthBiasMVPs, lightIdx,
                    callLog, disposed, failures, entered, escSample,
                    glAfterTerminate, harnessVars >>

\* pass 1 before the loop over the lights, clearing the opaque bucket in the
\* place of allDepthBiasMVPs
MainLoop_ShadowSetup_ClearsBucket ==
    /\ pc = "ShadowSetup"
    /\ gl' = [gl EXCEPT !.cullFace = TRUE, !.program = depthProgramID]
    /\ opaqueMeshes' = << >>
    /\ lightIdx' = 0
    /\ NoteGL
    /\ pc' = "ShadowLight"
    /\ UNCHANGED << exitStatus, glfwInited, window, windowShouldClose, gen,
                    linked, simVars, meshes, normalMapMeshes, transparentMeshes,
                    classroomLightPositions_worldspace, shadingMode,
                    gKeyPressed, allDepthBiasMVPs, drawLog, callLog, disposed,
                    failures, entered, frameNo, layersWritten, inputVars,
                    harnessVars >>

\* pass 1 before the loop over the lights, without allDepthBiasMVPs.clear()
MainLoop_ShadowSetup_NoClear ==
    /\ pc = "ShadowSetup"
    /\ gl' = [gl EXCEPT !.cullFace = TRUE, !.program = depthProgramID]
    /\ allDepthBiasMVPs' = allDepthBiasMVPs
    /\ lightIdx' = 0
    /\ NoteGL
    /\ pc' = "ShadowLight"
    /\ UNCHANGED << exitStatus, glfwInited, window, windowShouldClose, gen,
                    linked, simVars, sceneVars, shadingMode, gKeyPressed,
                    drawLog, callLog, disposed, failures, entered, frameNo,
                    layersWritten, inputVars, harnessVars >>

\* pass 1, before the loop over the lights
MainLoop_ShadowSetup ==
    /\ pc = "ShadowSetup"
    /\ gl' = [gl EXCEPT !.cullFace = TRUE, !.program = depthProgramID]
    /\ allDepthBiasMVPs' = << >>
    /\ lightIdx' = 0
    /\ NoteGL
    /\ pc' = "ShadowLight"
    /\ UNCHANGED << exitStatus, glfwInited, window, windowShouldClose, gen,
                    linked, simVars, sceneVars, shadingMode, gKeyPressed,
                    drawLog, callLog, disposed, failures, entered, frameNo,
                    layersWritten, inputVars, harnessVars >>

\* glm::mat4 from 16 scalars with the scalars taken row by row
Mat4_RowByRow(a) == [ c \in 0..3 |-> [ r \in 0..3 |-> a[4 * r + c + 1] ] ]

\* glm::mat4 from 16 scalars: m[c][r], the scalars filling column after column
Mat4(a) == [ c \in 0..3 |-> [ r \in 0..3 |-> a[4 * c + r + 1] ] ]

\* glm: mat4 * vec4
MatTimesVec(m, v) ==
    [ r \in 1..4 |-> m[0][r - 1] * v[1] + m[1][r - 1] * v[2]
                       + m[2][r - 1] * v[3] + m[3][r - 1] * v[4] ]

\* glm::mat4 biasMatrix(0.5, 0.0, ..., 0.5, 0.5, 0.5, 1.0), in halves
biasMatrix ==
    Mat4(<< 1, 0, 0, 0,   0, 1, 0, 0,   0, 0, 1, 0,   1, 1, 1, 2 >>)

\* the nested light loops leaving after the first row of the grid
LightLoopContinues_OneRow(n) == n < 3

\* for (i < 3) for (j < 3): after n iterations another one follows
LightLoopContinues(n) == n < 3 * 3

\* pass 1, the body of the loop over the lights, for light lightIdx
MainLoop_ShadowLight ==
    /\ pc = "ShadowLight"
    /\ LET attached == FramebufferTextureLayer(gl, FramebufferName, lightIdx)
           clear == Entry("clear", "shadow", "none", 0, attached)
           o == DrawBucketShadow(attached, "shadow", opaqueMeshes)
           n == DrawBucketShadow(o.gl, "shadow", normalMapMeshes)
       IN  /\ drawLog' = << clear >> \o o.log \o n.log
           /\ gl' = n.gl
           /\ layersWritten' = layersWritten \cup ({clear.layer} \ {-1})
    /\ allDepthBiasMVPs' =
           Append(allDepthBiasMVPs,
                  \* biasMatrix * depthProj * depthView, of this light
                  [ bias |-> biasMatrix,
                    lightPos |-> classroomLightPositions_worldspace[lightIdx],
                    frame |-> frameNo ])
    /\ lightIdx' = lightIdx + 1
    /\ pc' = IF LightLoopContinues(lightIdx + 1) THEN "ShadowLight" ELSE "Lighting"
    /\ NoteGL
    /\ UNCHANGED << exitStatus, glfwInited, window, windowShouldClose, gen,
                    linked, simVars, sceneVars, shadingMode, gKeyPressed,
                    callLog, disposed, failures, entered, frameNo, inputVars,
                    harnessVars >>

\* pass 2 up to the first draw without glActiveTexture(GL_TEXTURE1): the
\* shadow-map array is bound on the unit that happens to be active
LightingSetup_NoActiveTexture(g) ==
    LET screen == [g EXCEPT !.framebuffer = 0, !.cullFace = TRUE]
        used == [screen EXCEPT !.program = programID]
        shaded == SetUniform(used, "uShadingModel", shadingMode)
        bound == [shaded EXCEPT !.texArray[shaded.activeTexture] = depthTextureArray]
    IN  [ log |-> << Entry("clear", "screen", "none", 0, screen) >>,
          gl |-> SetUniform(bound, "bIsUnlit", 0) ]

\* pass 2 up to the first draw: the screen is bound and cleared, the
\* lighting program and its per-frame uniforms are set
LightingSetup(g) ==
    LET screen == [g EXCEPT !.framebuffer = 0, !.cullFace = TRUE]
        used == [screen EXCEPT !.program = programID]
        shaded == SetUniform(used, "uShadingModel", shadingMode)
        bound == [shaded EXCEPT !.activeTexture = 1,
                                !.texArray[1] = depthTextureArray]
    IN  [ log |-> << Entry("clear", "screen", "none", 0, screen) >>,
          gl |-> SetUniform(bound, "bIsUnlit", 0) ]

\* the draws with the transparent bucket moved in front of the opaque one
LightingDraws_TransparentFirst(g) ==
    LET blended == [g EXCEPT !.blend = TRUE, !.depthMask = FALSE,
                             !.activeTexture = 3,
                             !.tex2D[3] = meshes["glass"].textureID]
        t == DrawBucket(SetUniform(blended, "bIsGlass", 1), "transparent",
                        transparentMeshes, 25)
        reset == [SetUniform(t.gl, "bIsGlass", 0)
                    EXCEPT !.depthMask = TRUE, !.blend = FALSE]
        o == DrawBucket(reset, "opaque", opaqueMeshes, 100)
        n == DrawBucket(o.gl, "normalMapped", normalMapMeshes, 100)
        u == DrawMesh(SetUniform(n.gl, "bIsUnlit", 1), "unlit", "lightPanel", 100)
    IN  [ log |-> t.log \o o.log \o n.log \o u.log,
          gl |-> SetUniform(u.gl, "bIsUnlit", 0) ]

\* pass 2, the draws: opaque, normal mapped, unlit light panels, transparent
LightingDraws(g) ==
    LET o == DrawBucket(g, "opaque", opaqueMeshes, 100)
        n == DrawBucket(o.gl, "normalMapped", normalMapMeshes, 100)
        u == DrawMesh(SetUniform(n.gl, "bIsUnlit", 1), "unlit", "lightPanel", 100)
        lit == SetUniform(u.gl, "bIsUnlit", 0)
        blended == [lit EXCEPT !.blend = TRUE, !.depthMask = FALSE,
                               !.activeTexture = 3,
                               !.tex2D[3] = meshes["glass"].textureID]
        t == DrawBucket(SetUniform(blended, "bIsGlass", 1), "transparent",
                        transparentMeshes, 25)
        reset == [SetUniform(t.gl, "bIsGlass", 0)
                    EXCEPT !.depthMask = TRUE, !.blend = FALSE]
    IN  [ log |-> o.log \o n.log \o u.log \o t.log, gl |-> reset ]

\* the mouse part of computeMatricesFromInputs (controls.cpp): the cursor is
\* read, put back at (1024/2, 768/2), and the angles move by mouseSpeed times
\* the distance of the position read from (1024/2, 768/2)
computeMatricesFromInputs(c) ==
    [ cursor |-> << 1024 \div 2, 768 \div 2 >>,
      horizontalAngle |-> c.horizontalAngle
                            + mouseSpeed * (1024 \div 2 - c.cursor[1]),
      verticalAngle |-> c.verticalAngle
                            + mouseSpeed * (768 \div 2 - c.cursor[2]) ]

\* pass 2 of the loop body
MainLoop_Lighting ==
    /\ pc = "Lighting"
    /\ LET s == LightingSetup(gl)
           d == LightingDraws(s.gl)
       IN  /\ drawLog' = s.log \o d.log
           /\ gl' = d.gl
    /\ LET c == computeMatricesFromInputs(
                    [ cursor |-> cursor, horizontalAngle |-> horizontalAngle,
                      verticalAngle |-> verticalAngle ])
       IN  /\ cursor' = c.cursor
           /\ horizontalAngle' = c.horizontalAngle
           /\ verticalAngle' = c.verticalAngle
    /\ NoteGL
    /\ pc' = "Present"
    /\ UNCHANGED << exitStatus, glfwInited, window, windowShouldClose, gen,
                    linked, simVars, sceneVars, loopVars, callLog, disposed,
                    failures, entered, frameNo, layersWritten, inputVars,
                    disposeVars, biasVars, scrollVars, mouseMoves, addVars >>

\* the loop test with || in the place of &&
LoopContinues_Either(escPressed, shouldClose) == ~escPressed \/ ~shouldClose

\* the condition of the do-while
LoopContinues(escPressed, shouldClose) == ~escPressed /\ ~shouldClose

\* the ways the mouse moves between two polls, in pixels: not at all, or to
\* the right and up
MouseMotions == { << 0, 0 >>, << 8, -4 >> }

\* the end of the loop body: swap, poll, and the loop test
MainLoop_Present ==
    /\ pc = "Present"
    /\ \E closeEvent \in BOOLEAN, escPressed \in BOOLEAN :
         /\ windowShouldClose' = (windowShouldClose \/ closeEvent)
         /\ escSample' = escPressed
         /\ pc' = IF LoopContinues(escPressed, windowShouldClose \/ closeEvent)
                  THEN "Input" ELSE "Delete"
    \* glfwPollEvents: the cursor follows the mouse
    /\ \E motion \in MouseMotions :
         /\ motion # << 0, 0 >> => mouseMoves < MaxMouseMoves
         /\ cursor' = << cursor[1] + motion[1], cursor[2] + motion[2] >>
         /\ mouseMoves' = IF motion = << 0, 0 >> THEN mouseMoves
                          ELSE mouseMoves + 1
    \* glfwSwapBuffers(window)
    /\ drawLog' = Append(drawLog, Entry("swap", "present", "none", 0, gl))
    /\ NoteGL
    /\ UNCHANGED << exitStatus, glfwInited, window, gen, linked, gl, simVars,
                    sceneVars, loopVars, callLog, disposed, failures,
                    entered, frameNo, layersWritten, gSample, gPrevSample,
                    disposeVars, biasVars, scrollVars, horizontalAngle,
                    verticalAngle, addVars >>

\* --------------------------------------------------------------- shutdown

Delete(fn, kind, h) == [ api |-> "gl", fn |-> fn, kind |-> kind, h |-> h ]

If(cond, call) == IF cond THEN << call >> ELSE << >>

\* Mesh::Dispose: the delete calls it makes; no member is changed
Dispose(m) ==
    If(m.vertexBuffer # 0, Delete("glDeleteBuffers", "buffer", m.vertexBuffer))
    \o If(m.uvBuffer # 0, Delete("glDeleteBuffers", "buffer", m.uvBuffer))
    \o If(m.normalBuffer # 0, Delete("glDeleteBuffers", "buffer", m.normalBuffer))
    \o If(m.elementBuffer # 0, Delete("glDeleteBuffers", "buffer", m.elementBuffer))
    \o If(m.textureID # 0, Delete("glDeleteTextures", "texture", m.textureID))
    \o (IF m.hasNormalMap
        THEN << Delete("glDeleteBuffers", "buffer", m.tangentBuffer),
                Delete("glDeleteBuffers", "buffer", m.bitangentBuffer),
                Delete("glDeleteTextures", "texture", m.normalTextureID),
                Delete("glDeleteTextures", "texture", m.specularTextureID) >>
        ELSE << >>)

RECURSIVE DisposeAll(_)
DisposeAll(names) ==
    IF names = << >> THEN << >>
    ELSE Dispose(meshes[Head(names)]) \o DisposeAll(Tail(names))

\* the combined list without the push_back of lightPanel
AllMeshes_NoLightPanel ==
    opaqueMeshes \o normalMapMeshes \o transparentMeshes

\* Cleanup's combined list
AllMeshes ==
    opaqueMeshes \o normalMapMeshes \o transparentMeshes \o << "lightPanel" >>

\* Cleanup, "Release GL Objects"
ReleaseCalls ==
    If(FramebufferName # 0,
       Delete("glDeleteFramebuffers", "framebuffer", FramebufferName))
    \o If(depthTextureArray # 0,
          Delete("glDeleteTextures", "texture", depthTextureArray))
    \o If(VertexArrayID # 0,
          Delete("glDeleteVertexArrays", "vertexArray", VertexArrayID))
    \o If(programID # 0, Delete("glDeleteProgram", "program", programID))
    \o If(depthProgramID # 0, Delete("glDeleteProgram", "program", depthProgramID))

TerminateCall ==
    [ api |-> "glfw", fn |-> "glfwTerminate", kind |-> "library", h |-> 0 ]

\* the calls of Cleanup with the library torn down first
CleanupCalls_TerminateFirst ==
    << TerminateCall >> \o DisposeAll(AllMeshes) \o ReleaseCalls

\* the calls of ClassroomSimulator::Cleanup, in order
CleanupCalls == DisposeAll(AllMeshes) \o ReleaseCalls \o << TerminateCall >>

\* a GL call follows a glfwTerminate in the log
GLAfterTerminateIn(log) ==
    \E i \in DOMAIN log, j \in DOMAIN log :
        i < j /\ log[i].fn = "glfwTerminate" /\ log[j].api = "gl"

\* main: Run has returned, delete app runs ~ClassroomSimulator, i.e. Cleanup
Cleanup ==
    /\ pc = "Delete"
    /\ callLog' = callLog \o CleanupCalls
    /\ disposed' = disposed \o AllMeshes
    /\ glAfterTerminate' = (glAfterTerminate \/ GLAfterTerminateIn(callLog \o CleanupCalls))
    /\ entered' = entered \cup {"Cleanup"}
    /\ pc' = "Return"
    /\ UNCHANGED << exitStatus, glfwInited, window, windowShouldClose, gen,
                    linked, gl, simVars, sceneVars, loopVars, drawLog, failures,
                    frameNo, layersWritten, inputVars, harnessVars >>

\* the value main returns
MainResult == 0

\* main: return
MainReturn ==
    /\ pc = "Return"
    /\ exitStatus' = MainResult
    /\ pc' = "exited"
    /\ UNCHANGED << glfwInited, window, windowShouldClose, gen, linked, gl,
                    simVars, sceneVars, loopVars, drawLog, callLog, disposed,
                    failures, entered, frameNo, layersWritten, inputVars,
                    glAfterTerminate, harnessVars >>

\* ------------------------------------------------- Mesh::Dispose on its own

\* the meshes a caller can hold: a default Mesh, and what the two loaders
\* return, whatever names were in use and whichever files could be read
LoadableMeshes ==
    LET Gens == { [ buffer |-> b, texture |-> t, framebuffer |-> 0,
                    vertexArray |-> 0, program |-> 0 ] :
                  b \in 0..MaxNamesInUse, t \in 0..MaxNamesInUse }
    IN  { NewMesh }
          \cup { LoadStandardMesh(g, o, d).mesh :
                   g \in Gens, o \in BOOLEAN, d \in BOOLEAN }
          \cup { LoadNormalMapMesh(g, o[1], o[2], o[3], o[4]).mesh :
                   g \in Gens, o \in [1..4 -> BOOLEAN] }

DisposeInit ==
    /\ pc = "Dispose"
    /\ Constructed
    /\ dMesh \in LoadableMeshes
    /\ dCalls = 0
    /\ dLog = << >>
    /\ BiasIdle
    /\ ScrollIdle
    /\ CameraIdle
    /\ AddIdle

\* mesh.Dispose()
DisposeCall ==
    /\ pc = "Dispose"
    /\ dCalls < MaxDisposeCalls
    /\ dLog' = dLog \o Dispose(dMesh)
    /\ dCalls' = dCalls + 1
    /\ UNCHANGED << pc, exitStatus, glfwInited, window, windowShouldClose, gen,
                    linked, gl, simVars, sceneVars, loopVars, drawLog, callLog,
                    disposed, failures, entered, frameNo, layersWritten,
                    inputVars, glAfterTerminate, dMesh, biasVars, scrollVars,
                    cameraVars, addVars >>

DisposeNext == DisposeCall

DisposeSpec == DisposeInit /\ [][DisposeNext]_vars

\* -------------------------------------------- the bias matrix on its own

\* the points of clip space, in units of 1 / ClipSteps
ClipPoints ==
    { << x, y, z >> : x \in -ClipSteps..ClipSteps, y \in -ClipSteps..ClipSteps,
                      z \in -ClipSteps..ClipSteps }

BiasInit ==
    /\ pc = "Bias"
    /\ Constructed
    /\ DisposeIdle
    /\ ScrollIdle
    /\ CameraIdle
    /\ AddIdle
    /\ clipPoint \in ClipPoints
    /\ texCoord = << >>

\* biasMatrix * vec4(p, 1): the image is in units of 1 / (2 * ClipSteps)
ApplyBias ==
    /\ pc = "Bias"
    /\ texCoord' = MatTimesVec(biasMatrix, << clipPoint[1], clipPoint[2],
                                              clipPoint[3], ClipSteps >>)
    /\ pc' = "Biased"
    /\ UNCHANGED << exitStatus, glfwInited, window, windowShouldClose, gen,
                    linked, gl, simVars, sceneVars, loopVars, drawLog, callLog,
                    disposed, failures, entered, frameNo, layersWritten,
                    inputVars, glAfterTerminate, disposeVars, clipPoint,
                    scrollVars, cameraVars, addVars >>

BiasNext == ApplyBias

BiasSpec == BiasInit /\ [][BiasNext]_vars

\* ------------------------------------------- scroll_callback on its own

\* scroll_callback without the two clamps
scroll_callback_NoClamp(fov, y) == fov - y

\* scroll_callback: initialFoV -= (float)yoffset * 2.0f, then the two clamps;
\* y is the yoffset in halves of a notch, so the change is y degrees
scroll_callback(fov, y) ==
    LET moved == fov - y
        raised == IF moved < 20 THEN 20 ELSE moved
    IN  IF raised > 60 THEN 60 ELSE raised

ScrollInit ==
    /\ pc = "Scroll"
    /\ Constructed
    /\ HarnessIdle

\* GLFW delivers a scroll event
ScrollEvent ==
    /\ pc = "Scroll"
    /\ scrollEvents < MaxScrollEvents
    /\ \E y \in -MaxScrollOffset..MaxScrollOffset :
         /\ initialFoV' = scroll_callback(initialFoV, y)
         /\ yoffset' = y
    /\ fovBefore' = initialFoV
    /\ scrollEvents' = scrollEvents + 1
    /\ UNCHANGED << pc, exitStatus, glfwInited, window, windowShouldClose, gen,
                    linked, gl, simVars, sceneVars, loopVars, drawLog, callLog,
                    disposed, failures, entered, frameNo, layersWritten,
                    inputVars, glAfterTerminate, disposeVars, biasVars,
                    cameraVars, addVars >>

ScrollNext == ScrollEvent

ScrollSpec == ScrollInit /\ [][ScrollNext]_vars

\* --------------------------- DrawMesh and DrawMeshShadow on their own

DrawInit ==
    /\ pc = "Draw"
    /\ Constructed
    /\ HarnessIdle

\* a batch as a loader returns it, with n instances added by addInstance
DrawPrepare ==
    /\ pc = "Draw"
    /\ \E n \in 0..MaxInstances, normalMapped \in BOOLEAN :
         LET l == IF normalMapped
                  THEN LoadNormalMapMesh(gen, TRUE, TRUE, TRUE, TRUE)
                  ELSE LoadStandardMesh(gen, TRUE, TRUE)
         IN  /\ meshes' =
                   [ meshes EXCEPT !["bench"] =
                       [ l.mesh EXCEPT !.modelMatrices =
                           [ k \in 1..n |->
                               Translate(Identity, Vec3(k * 1000, 0, 0)) ] ] ]
             /\ gen' = l.gen
    /\ pc' = "DrawReady"
    /\ UNCHANGED << exitStatus, glfwInited, window, windowShouldClose, linked,
                    gl, simVars, opaqueMeshes, normalMapMeshes,
                    transparentMeshes, classroomLightPositions_worldspace,
                    loopVars, drawLog, callLog, disposed, failures, entered,
                    frameNo, layersWritten, inputVars, glAfterTerminate,
                    harnessVars >>

\* one call of DrawMeshShadow(bench, ...) or of DrawMesh(bench, ...)
DrawCall ==
    /\ pc = "DrawReady"
    /\ \E shadow \in BOOLEAN :
         LET d == IF shadow THEN DrawMeshShadow(gl, "shadow", "bench")
                           ELSE DrawMesh(gl, "opaque", "bench", 100)
         IN  /\ drawLog' = d.log
             /\ gl' = d.gl
             /\ pc' = IF shadow THEN "DrawnShadow" ELSE "Drawn"
    /\ UNCHANGED << exitStatus, glfwInited, window, windowShouldClose, gen,
                    linked, simVars, sceneVars, loopVars, callLog, disposed,
                    failures, entered, frameNo, layersWritten, inputVars,
                    glAfterTerminate, harnessVars >>

DrawNext == DrawPrepare \/ DrawCall

\* --------------------------------------------- AddObject on its own

AddInit ==
    /\ pc = "AddObject"
    /\ Constructed
    /\ HarnessIdle

\* the batches, positions, angles, axes and scales AddObject is called with
AddMeshes == { "bench", "door" }

AddPositions == { Vec3(0, 0, 0), Vec3(-26000, 0, 9000) }

AddAngles == { 0, 90 }

AddAxes == { AxisX, AxisY }

AddScales == { UnitScale, Vec3(1000, 1000, 2000) }

\* one call AddObject(mesh, pos, rotDeg, rotAxis, scale)
AddObjectCall ==
    /\ pc = "AddObject"
    /\ Len(addCalls) < MaxAddCalls
    /\ \E name \in AddMeshes, pos \in AddPositions, rotDeg \in AddAngles,
          rotAxis \in AddAxes, scale \in AddScales :
         /\ meshes' = [ meshes EXCEPT
                          ![name] = AddObject(@, pos, rotDeg, rotAxis, scale) ]
         /\ addCalls' = Append(addCalls,
                               Call(name, pos, rotDeg, rotAxis, scale))
    /\ UNCHANGED << pc, exitStatus, glfwInited, window, windowShouldClose, gen,
                    linked, gl, simVars, opaqueMeshes, normalMapMeshes,
                    transparentMeshes, classroomLightPositions_worldspace,
                    loopVars, drawLog, callLog, disposed, failures, entered,
                    frameNo, layersWritten, inputVars, glAfterTerminate,
                    disposeVars, biasVars, scrollVars, cameraVars >>

AddNext == AddObjectCall

AddSpec == AddInit /\ [][AddNext]_vars

Next ==
    \/ InitSystem
    \/ InitShaders
    \/ InitShadowFramebuffer
    \/ LoadScene
    \/ MainLoop_Begin
    \/ MainLoop_Input
    \/ MainLoop_ShadowSetup
    \/ MainLoop_ShadowLight
    \/ MainLoop_Lighting
    \/ MainLoop_Present
    \/ Cleanup
    \/ MainReturn

Spec == Init /\ [][Next]_vars

\* the program, and a batch drawn on its own
DrawSpec == (Init \/ DrawInit) /\ [][Next \/ DrawNext]_vars

\* the positions of the main thread
Positions ==
    { "InitSystem", "InitShaders", "InitShadowFramebuffer", "LoadScene",
      "MainLoop", "Input", "ShadowSetup", "ShadowLight", "Lighting", "Present",
      "Delete", "Return", "exited" }

\* the main thread moves on to another position
Advance == pc \in Positions \ { "exited" } /\ pc' \in Positions \ { pc }

\* the main thread is never suspended for ever: until main has returned it
\* keeps moving on (a buffer swap may wait for the display, but it returns)
FairSpec == Spec /\ WF_pc(Advance)

\* ------------------------------------------------------------ properties

\* C1 (as claimed): in every frame, for every light L, the shadow framebuffer
\* is the render target with layer L of the depth array attached while layer L
\* is cleared and the shadow casters are drawn, so that all 9 layers have been
\* rewritten when the lighting pass starts.
C1_ShadowLayersRewrittenEveryFrame ==
    /\ (drawLog # << >> /\ drawLog[1].stage = "shadow")
          => \A k \in DOMAIN drawLog :
                /\ drawLog[k].target = FramebufferName
                /\ drawLog[k].layer = lightIdx - 1
    /\ pc = "Lighting" => layersWritten = 0..(NUM_LIGHTS - 1)

\* C2: the draw calls of a frame's lighting pass come bucket by bucket, every
\* batch of the opaque bucket, then every batch of the normal-mapped bucket,
\* then the light-panel batch, then every batch of the transparent bucket; no
\* draw of a transparent batch precedes a draw of an opaque or normal-mapped one.
C2_LightingDrawOrder ==
    LET draws == SelectSeq(drawLog, LAMBDA e : e.op = "draw")
        batches == opaqueMeshes \o normalMapMeshes \o << "lightPanel" >>
                     \o transparentMeshes
        Position(m) == CHOOSE k \in DOMAIN batches : batches[k] = m
        In(bucket, m) == \E k \in DOMAIN bucket : bucket[k] = m
    IN  pc = "Present" =>
          /\ \A k \in DOMAIN draws : In(batches, draws[k].mesh)
          /\ \A i \in DOMAIN draws, j \in DOMAIN draws :
                i < j => Position(draws[i].mesh) <= Position(draws[j].mesh)
          /\ \A k \in DOMAIN batches :
                meshes[batches[k]].modelMatrices # << >>
                   => \E d \in DOMAIN draws : draws[d].mesh = batches[k]
          /\ \A i \in DOMAIN draws, j \in DOMAIN draws :
                (In(transparentMeshes, draws[i].mesh)
                   /\ (In(opaqueMeshes, draws[j].mesh)
                         \/ In(normalMapMeshes, draws[j].mesh)))
                => j < i

\* C2, witness: a second frame's lighting pass has drawn batches of all four
\* groups.
C2_Witness ==
    /\ pc = "Present"
    /\ frameNo >= 2
    /\ \A g \in { "opaque", "normalMapped", "unlit", "transparent" } :
          \E k \in DOMAIN drawLog : drawLog[k].op = "draw" /\ drawLog[k].stage = g

\* C3: the shading mode starts at 0, stays in {0, 1}, changes only where the G
\* key is sampled, and changes there exactly when the key is sampled pressed
\* and was not sampled pressed in the frame before: once per run of frames in
\* which it is held.
C3_ToggleOncePerPress ==
    /\ [](shadingMode \in { 0, 1 })
    /\ [](frameNo = 0 => shadingMode = 0)
    /\ [][ IF pc = "Input"
           THEN (shadingMode' # shadingMode) <=> (gSample' /\ ~gSample)
           ELSE shadingMode' = shadingMode ]_vars

\* C3, witness: the key was sampled pressed in frames 1 and 2 and the mode has
\* flipped once.
C3_Witness ==
    /\ pc = "ShadowSetup"
    /\ frameNo = 2
    /\ gSample /\ gPrevSample
    /\ shadingMode = 1

\* C4 (as claimed): over all the calls of Dispose on a mesh, no handle the mesh
\* owns is passed to a GL delete call more than once, and a mesh with no handle
\* makes no delete call.
C4_DisposeTwiceDeletesOnce ==
    /\ \A i \in DOMAIN dLog, j \in DOMAIN dLog :
          (i < j /\ dLog[i].h # 0)
             => ~(dLog[i].kind = dLog[j].kind /\ dLog[i].h = dLog[j].h)
    /\ dMesh = NewMesh => dLog = << >>

\* C5: after the loop has ended, the destructor has run Cleanup once: each of
\* the 20 meshes (15 opaque, 3 normal mapped, 1 transparent, lightPanel) was
\* disposed exactly once, the shadow framebuffer, the depth array texture and
\* the vertex array were deleted exactly once each, every shader program that
\* exists was deleted exactly once, and no handle was deleted twice; before
\* the loop ends nothing is disposed or deleted.
C5_ShutdownReleasesOnce ==
    LET Count(seq, P(_)) == Cardinality({ k \in DOMAIN seq : P(seq[k]) })
        Deleted(kind, h) ==
            Count(callLog, LAMBDA c : c.api = "gl" /\ c.kind = kind /\ c.h = h)
    IN  /\ ("MainLoop" \in entered /\ pc \in { "Return", "exited" }) =>
             /\ Len(opaqueMeshes) = 15
             /\ Len(normalMapMeshes) = 3
             /\ Len(transparentMeshes) = 1
             /\ Len(disposed) = 20
             /\ \A m \in MeshNames : Count(disposed, LAMBDA d : d = m) = 1
             /\ FramebufferName # 0 /\ Deleted("framebuffer", FramebufferName) = 1
             /\ depthTextureArray # 0 /\ Deleted("texture", depthTextureArray) = 1
             /\ VertexArrayID # 0 /\ Deleted("vertexArray", VertexArrayID) = 1
             /\ programID # 0 => Deleted("program", programID) = 1
             /\ depthProgramID # 0 => Deleted("program", depthProgramID) = 1
             /\ Count(callLog, LAMBDA c : c.kind = "program") =
                   Cardinality({ programID, depthProgramID } \ { 0 })
             /\ \A k \in DOMAIN callLog :
                   (callLog[k].api = "gl" /\ callLog[k].h # 0)
                      => Deleted(callLog[k].kind, callLog[k].h) = 1
        /\ ("MainLoop" \in entered /\ pc \notin { "Return", "exited" }) =>
             /\ disposed = << >>
             /\ callLog = << >>

\* C5, witness: a run without any failure has rendered two frames or more and
\* has shut down, both programs deleted.
C5_Witness ==
    /\ pc = "exited"
    /\ failures = {}
    /\ frameNo >= 2
    /\ \E k \in DOMAIN callLog : callLog[k].kind = "program" /\ callLog[k].h = programID
    /\ \E k \in DOMAIN callLog : callLog[k].kind = "program" /\ callLog[k].h = depthProgramID

\* C6: on every path through main no GL call is issued once glfwTerminate has
\* been called: every release of a GL resource comes before the teardown.
C6_NoGLAfterTerminate ==
    /\ ~glAfterTerminate
    /\ ~GLAfterTerminateIn(callLog)

\* C6, witness: the process has ended with GL resources released and the
\* library torn down, after a rendered frame.
C6_Witness ==
    /\ pc = "exited"
    /\ frameNo >= 1
    /\ Terminated
    /\ \E k \in DOMAIN callLog : callLog[k].api = "gl"

\* the failures the specification calls fatal initialisation errors
FatalInitFailures == { "glfwInit", "window", "glew", "framebuffer", "shader" }

\* C7 (as claimed): the exit status is 0 when nothing failed fatally during
\* initialisation and the loop ended, and non-zero when initialisation failed.
C7_ExitStatus ==
    pc = "exited" =>
        IF failures \cap FatalInitFailures = {}
        THEN exitStatus = 0
        ELSE exitStatus # 0

\* C8 (as claimed): after any fatal initialisation failure neither LoadScene
\* nor MainLoop is entered and no frame is rendered.
C8_FatalInitAborts ==
    failures \cap FatalInitFailures # {} =>
        /\ "LoadScene" \notin entered
        /\ "MainLoop" \notin entered
        /\ frameNo = 0

\* C9 (as claimed): when a model or texture file fails to load, the render
\* loop is never entered and no frame is rendered.
C9_AssetFailureAborts ==
    "asset" \in failures =>
        /\ "MainLoop" \notin entered
        /\ frameNo = 0

\* MainLoop has returned
LoopEnded == "MainLoop" \in entered /\ pc \in { "Delete", "Return", "exited" }

\* C10: at the end of a frame another frame starts if and only if ESC is not
\* sampled pressed and the close flag is not set, and the loop ends otherwise;
\* once it has ended it stays ended and no frame is started or drawn any
\* more; and Cleanup eventually runs.
C10_LoopUntilExit ==
    /\ [][ pc = "Present" =>
              /\ (pc' = "Input") <=> (~escSample' /\ ~windowShouldClose')
              /\ (pc' # "Input") => LoopEnded' ]_vars
    /\ [][ LoopEnded => (LoopEnded' /\ frameNo' = frameNo /\ drawLog' = drawLog) ]_vars
    /\ (LoopEnded ~> "Cleanup" \in entered)

\* C10, witness: frames went on while neither was the case, and the loop
\* ended when ESC was sampled pressed with the window still open; Cleanup ran.
C10_Witness ==
    /\ "MainLoop" \in entered
    /\ "Cleanup" \in entered
    /\ frameNo >= 2
    /\ escSample
    /\ ~windowShouldClose

\* C11: a grid of N x M cells with an exclusion predicate appends one instance
\* per cell that is not excluded, N*M minus the number of excluded cells, in
\* row-major order (outer i, inner j): the 5x5 bench grid without (0,3) and
\* (0,4) leaves 23 bench instances after LoadScene, the 2x3 fan grid 6 fans,
\* the 3x3 light grid 9 light panels, each at the position of its cell.
C11_GridPlacement ==
    LET Grid(n, m) == { [ i |-> i, j |-> j ] : i \in 0..(n - 1), j \in 0..(m - 1) }
        Before(c, d) == c.i < d.i \/ (c.i = d.i /\ c.j < d.j)
        \* the cell an instance stands on, from its translation
        CellOf(t, x0, dx, z0, dz) ==
            [ i |-> (t.v[1] - x0) \div dx, j |-> (t.v[3] - z0) \div dz ]
        Placed(name, n, m, Excluded, x0, dx, y, z0, dz) ==
            LET mm == meshes[name].modelMatrices
                cell == [ k \in DOMAIN mm |-> CellOf(mm[k][1], x0, dx, z0, dz) ]
            IN  /\ Len(mm) = n * m - Cardinality(Grid(n, m) \cap Excluded)
                /\ { cell[k] : k \in DOMAIN mm } = Grid(n, m) \ Excluded
                /\ \A k \in DOMAIN mm, l \in DOMAIN mm :
                      k < l => Before(cell[k], cell[l])
                /\ \A k \in DOMAIN mm :
                      /\ mm[k][1].op = "translate"
                      /\ mm[k][1].v = << x0 + cell[k].i * dx, y, z0 + cell[k].j * dz >>
    IN  "LoadScene" \in entered =>
          /\ Placed("bench", 5, 5, { [ i |-> 0, j |-> 3 ], [ i |-> 0, j |-> 4 ] },
                    -16000, 9500, 500, -40000, 20000)
          /\ Len(meshes["bench"].modelMatrices) = 23
          /\ Placed("fan", 2, 3, {}, -12880, 25760, 32975, -25760, 25760)
          /\ Placed("lightPanel", 3, 3, {}, -22540, 25760, 37675, -25760, 25760)

\* C11, witness: LoadScene has returned and the bench batch holds instances,
\* the first of the second row among them.
C11_Witness ==
    /\ pc = "MainLoop"
    /\ \E k \in DOMAIN meshes["bench"].modelMatrices :
          meshes["bench"].modelMatrices[k][1].v = << -6500, 500, -40000 >>

\* C12: after LoadScene all 9 light positions are set, light 3*i+j standing at
\* (-22.54 + 25.76*i, 38.6, -25.76 + 25.76*j) to the thousandth and within
\* 4 * 2^-22 (one millionth) of the float nearest to that value, so light 4 is
\* at (3.22, 38.6, 0.0); and the light-panel batch holds exactly one instance
\* per light, instance 3*i+j at the x and z of light 3*i+j.
C12_LightGrid ==
    "LoadScene" \in entered =>
      /\ DOMAIN classroomLightPositions_worldspace = 0..8
      /\ Len(meshes["lightPanel"].modelMatrices) = 9
      /\ \A i \in 0..2, j \in 0..2 :
            LET p == classroomLightPositions_worldspace[3 * i + j]
                want == << -22540 + 25760 * i, 38600, -25760 + 25760 * j >>
                panel == meshes["lightPanel"].modelMatrices[3 * i + j + 1]
            IN  /\ \A a \in 1..3 :
                      /\ Thousandths(p[a]) = want[a]
                      /\ Abs(p[a] - FloatLiteral(want[a])) <= 4
                /\ panel[1].op = "translate"
                /\ panel[1].v[1] = Thousandths(p[1])
                /\ panel[1].v[3] = Thousandths(p[3])
      /\ LET p == classroomLightPositions_worldspace[4]
         IN  << Thousandths(p[1]), Thousandths(p[2]), Thousandths(p[3]) >>
                = << 3220, 38600, 0 >>

\* C12, witness: LoadScene has returned and light 4 is set, its x coordinate
\* the float sum 3.2199993 (three floats below 3.22f), its z coordinate 0.
C12_Witness ==
    /\ pc = "MainLoop"
    /\ classroomLightPositions_worldspace[4][1] = FloatLiteral(3220) - 3
    /\ classroomLightPositions_worldspace[4][3] = 0

\* C13: the bias matrix, its 16 constructor arguments taken column by column,
\* maps every point p of clip space [-1,1]^3 (w = 1) to 0.5*p + 0.5, a point
\* of [0,1]^3, with w = 1: (-1,-1,-1) goes to (0,0,0), (1,1,1) to (1,1,1),
\* (0,0,0) to (0.5,0.5,0.5).
C13_BiasMatrix ==
    LET One == 2 * ClipSteps      \* 1.0 in the unit of texCoord
        Image(p) == << p[1] + ClipSteps, p[2] + ClipSteps, p[3] + ClipSteps, One >>
    IN  pc = "Biased" =>
          /\ texCoord = Image(clipPoint)
          /\ \A a \in 1..3 : 0 <= texCoord[a] /\ texCoord[a] <= One
          /\ clipPoint = << -ClipSteps, -ClipSteps, -ClipSteps >>
                => texCoord = << 0, 0, 0, One >>
          /\ clipPoint = << ClipSteps, ClipSteps, ClipSteps >>
                => texCoord = << One, One, One, One >>
          /\ clipPoint = << 0, 0, 0 >>
                => texCoord = << ClipSteps, ClipSteps, ClipSteps, One >>

\* C13, witness: the matrix was applied to the corner (-1,-1,-1) of clip space.
C13_Witness ==
    /\ pc = "Biased"
    /\ clipPoint = << -ClipSteps, -ClipSteps, -ClipSteps >>
    /\ texCoord[1] = 0

\* C15: after any sequence of scroll events delivered to scroll_callback the
\* field of view is within [20, 60] degrees; an event changes it by
\* -2 * yoffset and then clamps it to that range.
C15_FoVClamped ==
    /\ 20 <= initialFoV /\ initialFoV <= 60
    /\ scrollEvents > 0 =>
          LET moved == fovBefore - yoffset    \* yoffset counts half notches
          IN  /\ (20 <= moved /\ moved <= 60) => initialFoV = moved
              /\ moved < 20 => initialFoV = 20
              /\ moved > 60 => initialFoV = 60

\* C15, witness: the last of MaxScrollEvents events found the field of view
\* inside the range and pushed it below 20, where it was clamped.
C15_Witness ==
    /\ scrollEvents = MaxScrollEvents
    /\ fovBefore < 60
    /\ fovBefore - yoffset < 20
    /\ initialFoV = 20

\* C14: every batch loaded without a normal map (all but wall and ceiling)
\* has hasNormalMap false and no tangent or bitangent buffer, and at each of
\* its draw calls in the lighting pass the attribute arrays 3 and 4 are
\* disabled and the normal-map and specular-map flags are 0, also right after
\* a normal-mapped batch was drawn.
C14_NoNormalMapNoTangents ==
    LET Plain == MeshNames \ { "wall", "ceiling" }
    IN  "LoadScene" \in entered =>
          /\ \A name \in Plain :
                /\ meshes[name].hasNormalMap = FALSE
                /\ meshes[name].tangentBuffer = 0
                /\ meshes[name].bitangentBuffer = 0
          /\ \A k \in DOMAIN drawLog :
                (drawLog[k].op = "draw" /\ drawLog[k].stage # "shadow"
                   /\ drawLog[k].mesh \in Plain)
                => /\ drawLog[k].state.attrib[3] = FALSE
                   /\ drawLog[k].state.attrib[4] = FALSE
                   /\ drawLog[k].state.bUseNormalMap = 0
                   /\ drawLog[k].state.bUseSpecularMap = 0

\* C14, witness: a lighting pass drew the ceiling with its tangents enabled
\* and the normal-map flag set, and right after it the grid, a batch without
\* a normal map.
C14_Witness ==
    /\ pc = "Present"
    /\ \E k \in DOMAIN drawLog :
          /\ k + 1 \in DOMAIN drawLog
          /\ drawLog[k].mesh = "ceiling"
          /\ drawLog[k].state.attrib[3]
          /\ drawLog[k].state.bUseNormalMap = 1
          /\ drawLog[k + 1].mesh = "grid"
          /\ drawLog[k + 1].op = "draw"

\* C16 (as claimed): at the draw calls of the transparent bucket, and only
\* there, blending is enabled, depth writes are disabled, the glass flag is 1
\* and alpha is 0.25; at every other draw call and every clear, of both
\* passes and in every frame, blending is disabled, depth writes are enabled,
\* the glass flag is 0 and alpha is 1.0.
C16_TransparentState ==
    \A k \in DOMAIN drawLog :
       LET e == drawLog[k]
           st == e.state
       IN  IF e.op = "draw" /\ e.stage # "shadow"
                /\ \E t \in DOMAIN transparentMeshes : transparentMeshes[t] = e.mesh
           THEN st.blend /\ ~st.depthMask /\ st.bIsGlass = 1
                   /\ st.fragmentAlpha = 25
           ELSE e.op \in { "draw", "clear" }
                   => ~st.blend /\ st.depthMask /\ st.bIsGlass = 0
                        /\ st.fragmentAlpha = 100

\* C17 (as claimed): in the lighting pass of every frame the unlit flag is 1
\* at the draw calls of the lightPanel batch and 0 at every other draw call.
C17_UnlitFlag ==
    \A k \in DOMAIN drawLog :
       (drawLog[k].op = "draw" /\ drawLog[k].stage # "shadow")
       => (drawLog[k].state.bIsUnlit = 1 <=> drawLog[k].mesh = "lightPanel")
          /\ drawLog[k].state.bIsUnlit \in { 0, 1 }

\* C18 (as claimed): in every frame and for every light L, what is drawn into
\* shadow layer L is every instance of every batch of the opaque bucket and
\* then of the normal-mapped bucket, and nothing else; glass and lightPanel
\* are never drawn in the shadow pass.
C18_ShadowCasters ==
    LET casters == opaqueMeshes \o normalMapMeshes
        draws == SelectSeq(drawLog, LAMBDA e : e.op = "draw")
        Position(m) == CHOOSE k \in DOMAIN casters : casters[k] = m
        Into(b, L) == { k \in DOMAIN draws : draws[k].mesh = b /\ draws[k].layer = L }
    IN  (drawLog # << >> /\ drawLog[1].stage = "shadow") =>
          /\ \A k \in DOMAIN draws :
                /\ \E c \in DOMAIN casters : casters[c] = draws[k].mesh
                /\ draws[k].mesh \notin { "glass", "lightPanel" }
          /\ \A i \in DOMAIN draws, j \in DOMAIN draws :
                i < j => Position(draws[i].mesh) <= Position(draws[j].mesh)
          /\ \A c \in DOMAIN casters :
                Cardinality(Into(casters[c], lightIdx - 1))
                   = Len(meshes[casters[c]].modelMatrices)

\* C19: at every draw call of DrawMeshShadow, in every frame, the attribute
\* array 0 is enabled and the arrays 1 to 4 are disabled, whatever the
\* lighting pass of the frame before left behind.
C19_ShadowAttributes ==
    \A k \in DOMAIN drawLog :
       (drawLog[k].op = "draw" /\ drawLog[k].stage = "shadow")
       => /\ drawLog[k].state.attrib[0] = TRUE
          /\ \A a \in 1..4 : drawLog[k].state.attrib[a] = FALSE

\* C19, witness: a shadow draw call of a frame after the first, whose lighting
\* pass had the tangent arrays enabled for the normal-mapped batches.
C19_Witness ==
    /\ frameNo >= 2
    /\ pc \in { "ShadowLight", "Lighting" }
    /\ \E k \in DOMAIN drawLog :
          /\ drawLog[k].op = "draw"
          /\ drawLog[k].stage = "shadow"
          /\ drawLog[k].mesh = "wall"

\* C20: when the depth-bias matrices are uploaded, in any frame, the list
\* holds exactly NUM_LIGHTS entries, entry L built in this frame from the bias
\* matrix and the position of light L, L = 3*i + j counting the 3x3 grid in
\* row-major order; the list never holds more.
C20_DepthBiasList ==
    /\ Len(allDepthBiasMVPs) <= NUM_LIGHTS
    /\ pc \in { "Lighting", "Present" } =>
          /\ Len(allDepthBiasMVPs) = NUM_LIGHTS
          /\ \A i \in 0..2, j \in 0..2 :
                LET entry == allDepthBiasMVPs[3 * i + j + 1]
                IN  /\ entry.frame = frameNo
                    /\ entry.bias = biasMatrix
                    /\ entry.lightPos = classroomLightPositions_worldspace[3 * i + j]
                    /\ Thousandths(entry.lightPos[1]) = -22540 + 25760 * i
                    /\ Thousandths(entry.lightPos[3]) = -25760 + 25760 * j

\* C20, witness: the list is complete for the upload of a frame after the
\* first.
C20_Witness ==
    /\ pc = "Lighting"
    /\ frameNo >= 2
    /\ Len(allDepthBiasMVPs) = NUM_LIGHTS
    /\ allDepthBiasMVPs[NUM_LIGHTS].frame = frameNo

\* C21: in every frame the toggle processing is followed by the shadow pass
\* of all 9 lights, light after light, then by the lighting pass, then by the
\* buffer swap: no lighting-pass draw call is issued before the shadow draws
\* of all 9 lights of that frame were issued, and exactly one swap follows the
\* last lighting-pass draw call, after which the next frame starts or the
\* loop ends.
C21_FrameOrder ==
    /\ [][ pc = "Input" => pc' = "ShadowSetup" ]_vars
    /\ [][ pc = "ShadowSetup" => (pc' = "ShadowLight" /\ lightIdx' = 0) ]_vars
    /\ [][ pc = "ShadowLight" =>
             /\ lightIdx' = lightIdx + 1
             /\ \E k \in DOMAIN drawLog' : drawLog'[k].op = "draw"
             /\ \A k \in DOMAIN drawLog' : drawLog'[k].stage = "shadow"
             /\ pc' = IF lightIdx' = 9 THEN "Lighting" ELSE "ShadowLight" ]_vars
    /\ [][ pc = "Lighting" =>
             /\ lightIdx = 9
             /\ \A k \in DOMAIN allDepthBiasMVPs : allDepthBiasMVPs[k].frame = frameNo
             /\ \E k \in DOMAIN drawLog' : drawLog'[k].op = "draw"
             /\ \A k \in DOMAIN drawLog' :
                   drawLog'[k].stage \notin { "shadow", "present" }
             /\ pc' = "Present" ]_vars
    /\ [][ pc = "Present" =>
             /\ Len(drawLog') = Len(drawLog) + 1
             /\ \A k \in DOMAIN drawLog : drawLog'[k] = drawLog[k]
             /\ drawLog'[Len(drawLog')].op = "swap"
             /\ drawLog[Len(drawLog)].op = "draw"
             /\ pc' \in { "Input", "Delete" } ]_vars
    /\ [](\A k \in DOMAIN drawLog :
             /\ drawLog[k].stage \notin { "shadow", "present" } => lightIdx = 9
             /\ drawLog[k].op = "swap" => k = Len(drawLog))

\* C21, witness: a second frame has run through both passes and its buffers
\* were swapped.
C21_Witness ==
    /\ frameNo >= 2
    /\ pc \in { "Input", "Delete" }
    /\ drawLog # << >>
    /\ drawLog[Len(drawLog)].op = "swap"
    /\ drawLog[Len(drawLog) - 1].op = "draw"

\* the instances of the batches of a list, all together
RECURSIVE InstanceCount(_)
InstanceCount(names) ==
    IF names = << >> THEN 0
    ELSE Len(meshes[Head(names)].modelMatrices) + InstanceCount(Tail(names))

C23_SceneFrozen ==
    [][ "LoadScene" \in entered =>
          /\ \A m \in MeshNames :
                meshes'[m].modelMatrices = meshes[m].modelMatrices
          /\ opaqueMeshes' = opaqueMeshes
          /\ normalMapMeshes' = normalMapMeshes
          /\ transparentMeshes' = transparentMeshes
          /\ classroomLightPositions_worldspace'
                = classroomLightPositions_worldspace ]_vars

\* C23, witness: the process has shut down after at least two frames, the
\* scene still as LoadScene composed it.
C23_Witness ==
    /\ pc = "exited"
    /\ frameNo >= 2
    /\ Len(meshes["bench"].modelMatrices) = 23
    /\ Len(opaqueMeshes) = 15

\* C24: at every draw call of the lighting pass, in every frame, the
\* shadow-map array is the array texture bound on texture unit 1 and no other
\* texture is bound on that unit: neither DrawMesh, which binds on units 0, 2
\* and 3, nor the setup of the transparent draws, which binds on unit 3,
\* touches unit 1 after the bind that starts the pass.
C24_ShadowMapOnUnit1 ==
    \A k \in DOMAIN drawLog :
       (drawLog[k].op = "draw" /\ drawLog[k].stage \notin { "shadow", "present" })
       => /\ depthTextureArray # 0
          /\ drawLog[k].state.texArray[1] = depthTextureArray
          /\ drawLog[k].state.tex2D[1] = 0

\* C24, witness: the glass of a second frame is drawn, after DrawMesh has
\* bound the textures of the normal-mapped batches on units 2 and 3 and the
\* transparent setup the smudge texture on unit 3.
C24_Witness ==
    /\ pc = "Present"
    /\ frameNo >= 2
    /\ \E k \in DOMAIN drawLog :
          /\ drawLog[k].op = "draw"
          /\ drawLog[k].mesh = "glass"
          /\ drawLog[k].state.tex2D[2] # 0
          /\ drawLog[k].state.tex2D[3] = meshes["glass"].textureID
          /\ drawLog[k].state.activeTexture = 0

\* C25 (as claimed): once LoadScene has run the three render buckets are
\* pairwise disjoint, a batch is in the normal-mapped bucket if and only if
\* its hasNormalMap flag is true, so that every draw of the normal-mapped
\* bucket has the normal-map and specular-map flags at 1 and the tangent
\* and bitangent attribute arrays enabled, and no batch of the opaque or the
\* transparent bucket has a normal map.
C25_BucketsByMaterial ==
    LET Opaque == { opaqueMeshes[k] : k \in DOMAIN opaqueMeshes }
        NormalMapped == { normalMapMeshes[k] : k \in DOMAIN normalMapMeshes }
        Transparent == { transparentMeshes[k] : k \in DOMAIN transparentMeshes }
    IN  "LoadScene" \in entered =>
          /\ Opaque \cap NormalMapped = {}
          /\ Opaque \cap Transparent = {}
          /\ NormalMapped \cap Transparent = {}
          /\ \A name \in MeshNames :
                name \in NormalMapped <=> meshes[name].hasNormalMap
          /\ \A name \in Opaque \cup Transparent : ~meshes[name].hasNormalMap
          /\ \A k \in DOMAIN drawLog :
                (drawLog[k].op = "draw" /\ drawLog[k].stage = "normalMapped"
                   /\ drawLog[k].state.program \in linked)
                => /\ drawLog[k].state.bUseNormalMap = 1
                   /\ drawLog[k].state.bUseSpecularMap = 1
                   /\ drawLog[k].state.attrib[3]
                   /\ drawLog[k].state.attrib[4]

\* C26 (as claimed): glfwTerminate is executed exactly once per process run
\* on every path, the normal exit and each initialisation failure, counting
\* the call in InitSystem and the call in Cleanup: never more than once
\* while the process runs, and exactly once when it has exited.
C26_TerminateOnce ==
    LET Calls == { i \in DOMAIN callLog : callLog[i].fn = "glfwTerminate" }
    IN  /\ Cardinality(Calls) <= 1
        /\ pc = "exited" => Cardinality(Calls) = 1

\* C27 (as claimed): as long as the user has not moved the mouse, the look
\* angles have their initial values, 0.59 and -0.48 radians, in every
\* frame, the first included.
C27_NoMouseNoTurn ==
    mouseMoves = 0 => horizontalAngle = 590 /\ verticalAngle = -480

\* C28: every AddObject call appends exactly one instance to the batch it
\* is given and changes no other batch and nothing else of that batch; the
\* instance is the translation, then the rotation unless rotDeg is 0, then
\* the scale unless scale is (1,1,1), in this order; and the instances of a
\* batch are a function of the calls made on it, in call order.
C28_AddObject ==
    LET Instance(c) ==
            << [ op |-> "translate", deg |-> 0, v |-> c.pos ] >>
            \o (IF c.rotDeg = 0 THEN << >>
                ELSE << [ op |-> "rotate", deg |-> c.rotDeg, v |-> c.rotAxis ] >>)
            \o (IF c.scale = << 1000, 1000, 1000 >> THEN << >>
                ELSE << [ op |-> "scale", deg |-> 0, v |-> c.scale ] >>)
        InstancesOf(name) ==
            LET mine == SelectSeq(addCalls, LAMBDA c : c.mesh = name)
            IN  [ k \in DOMAIN mine |-> Instance(mine[k]) ]
    IN  pc = "AddObject" =>
          \A name \in MeshNames :
             meshes[name] = [ NewMesh EXCEPT !.modelMatrices = InstancesOf(name) ]

\* C28, witness: two calls on the same batch, the first without rotation and
\* with a scale, the second with a rotation and the default scale; the batch
\* has the two instances, of two operations each, and no other batch has one.
C28_Witness ==
    /\ pc = "AddObject"
    /\ Len(addCalls) = 2
    /\ addCalls[1].mesh = "bench" /\ addCalls[2].mesh = "bench"
    /\ addCalls[1].rotDeg = 0 /\ addCalls[1].scale # UnitScale
    /\ addCalls[2].rotDeg # 0 /\ addCalls[2].scale = UnitScale
    /\ Len(meshes["bench"].modelMatrices) = 2
    /\ meshes["bench"].modelMatrices[1][2].op = "scale"
    /\ meshes["bench"].modelMatrices[2][2].op = "rotate"
    /\ meshes["door"].modelMatrices = << >>

====
